---- MODULE Spec2Model ----
(***************************************************************************)
(* A model of src/dashboard.py: a Streamlit script that is re-run from the *)
(* top on every interaction of a browser session.  Sessions hold their own *)
(* logged_in flag; the relational store (tables monthly_sales, amazon_ads) *)
(* and the st.cache_data memo of get_sales_data are shared by all          *)
(* sessions of the process.                                                *)
(*                                                                         *)
(* Product titles are modelled by integers that stand for the titles in    *)
(* lexicographic order (1 = "A", 2 = "B", ...), because groupby sorts its  *)
(* keys; calendar days are modelled by their ordinal number.               *)
(***************************************************************************)
EXTENDS Integers, Sequences, FiniteSets, TLC

VARIABLES
    logged_in,      \* st.session_state["logged_in"], one per session
    monthly_sales,  \* store table monthly_sales: a sequence of raw rows
    amazon_ads,     \* store table amazon_ads: a sequence of rows (their column sets)
    cache,          \* the process-wide memo of get_sales_data
    pc,             \* each session's position inside its script run
    df,             \* the frame a session holds inside get_sales_data
    start,          \* rows the store held when the session's fetch was called
    last,           \* the most recent script step and what it rendered
    dash,           \* show_dashboard after the fetch: frame, selection, output
    ing             \* the uploader's rename-and-project step: input, output

vars == <<logged_in, monthly_sales, amazon_ads, cache, pc, df, start, last, dash, ing>>

mainVars == <<logged_in, monthly_sales, amazon_ads, cache, pc, df, start, last>>

-----------------------------------------------------------------------------
(* Bounds of the model *)

\* rows the monthly_sales table may hold
MaxRows == 2
\* rows the amazon_ads table may hold
MaxAds == 1

Sessions == {"s1", "s2"}

-----------------------------------------------------------------------------
(* Helpers on sequences *)

RECURSIVE SelectRows(_, _)
\* the rows of frame t, in order, whose index is in the set keep (df[mask])
SelectRows(t, keep) ==
    IF t = <<>> THEN <<>>
    ELSE LET n == Len(t)
             front == SelectRows(SubSeq(t, 1, n - 1), keep)
         IN  IF n \in keep THEN Append(front, t[n]) ELSE front

\* how many rows of frame t equal r
Count(r, t) == Cardinality({i \in DOMAIN t : t[i] = r})

Range(t) == {t[i] : i \in DOMAIN t}

RECURSIVE SumOver(_, _)
\* the sum of f[i] over the finite set of indexes S
SumOver(f, S) ==
    IF S = {} THEN 0
    ELSE LET i == CHOOSE x \in S : TRUE
         IN  f[i] + SumOver(f, S \ {i})

RECURSIVE SortedSeq(_)
\* the elements of a finite set of integers in ascending order
SortedSeq(S) ==
    IF S = {} THEN <<>>
    ELSE LET m == CHOOSE x \in S : \A y \in S : x <= y
         IN  <<m>> \o SortedSeq(S \ {m})

-----------------------------------------------------------------------------
(* get_sales_data: the date column *)

\* ticks of the clock per calendar day: a sale_day is a timestamp, not a date
TicksPerDay == 2

\* pd.to_datetime fails on a value that is no date
Parseable(raw) == raw.kind = "iso"

\* pd.to_datetime on one raw sale_day text: the timestamp it denotes
to_datetime(raw) == raw.day * TicksPerDay + raw.tick

\* Series.dt.date: the calendar day of a timestamp
DateOf(ts) == ts \div TicksPerDay

\* one row of the frame get_sales_data returns: sale_day parsed
ParseRow(r) == [r EXCEPT !.sale_day = to_datetime(r.sale_day)]

\* the frame read_sql + to_datetime make of the table's rows
ParseAll(rows) == [i \in DOMAIN rows |-> ParseRow(rows[i])]

-----------------------------------------------------------------------------
(* show_dashboard, after the fetch *)

\* nlargest(5)
TopN == 5

\* df['shipping_region'].unique(), df['product_title'].unique()
region_list(t) == {t[i].shipping_region : i \in DOMAIN t}
product_list(t) == {t[i].product_title : i \in DOMAIN t}

\* df['sale_day'].min(), .max(), as date_input shows them (calendar days)
min_date(t) == DateOf(CHOOSE x \in {t[i].sale_day : i \in DOMAIN t} :
                        \A j \in DOMAIN t : x <= t[j].sale_day)
max_date(t) == DateOf(CHOOSE x \in {t[i].sale_day : i \in DOMAIN t} :
                        \A j \in DOMAIN t : x >= t[j].sale_day)

\* the widgets' default selection: the full span, every observed region and product
DefaultSelection(t) ==
    [start |-> min_date(t), end |-> max_date(t),
     regions |-> region_list(t), products |-> product_list(t)]

\* a mask that compares the timestamps themselves with the chosen days
MaskNoDate(t, sel) ==
    {i \in DOMAIN t :
        /\ t[i].sale_day >= sel.start * TicksPerDay
        /\ t[i].sale_day <= sel.end * TicksPerDay
        /\ t[i].shipping_region \in sel.regions
        /\ t[i].product_title \in sel.products}

\* the boolean mask of the filtering logic: the indexes of the rows kept
Mask(t, sel) ==
    {i \in DOMAIN t :
        /\ DateOf(t[i].sale_day) >= sel.start
        /\ DateOf(t[i].sale_day) <= sel.end
        /\ t[i].shipping_region \in sel.regions
        /\ t[i].product_title \in sel.products}

\* filtered_df = df[mask]
filtered_df(t, sel) == SelectRows(t, Mask(t, sel))

\* filtered_df['net_sales'].sum(), filtered_df['quantity_order'].sum()
TotalRevenue(f) == SumOver([i \in DOMAIN f |-> f[i].net_sales], DOMAIN f)
TotalOrders(f) == SumOver([i \in DOMAIN f |-> f[i].quantity_order], DOMAIN f)

\* groupby('shipping_region')['net_sales'].sum(): one entry per region present
reg_sales(f) ==
    [g \in region_list(f) |->
        SumOver([i \in DOMAIN f |-> f[i].net_sales],
                {i \in DOMAIN f : f[i].shipping_region = g})]

\* groupby('product_title')['quantity_order'].sum(): one entry per product
\* present, in the order of the sorted keys
GroupQuantity(f) ==
    LET keys == SortedSeq(product_list(f))
    IN  [k \in DOMAIN keys |->
            [product_title |-> keys[k],
             quantity_order |->
                SumOver([i \in DOMAIN f |-> f[i].quantity_order],
                        {i \in DOMAIN f : f[i].product_title = keys[k]})]]

RECURSIVE SortDescStable(_)
\* the entries by descending quantity, equal quantities in their given order
SortDescStable(g) ==
    IF g = <<>> THEN <<>>
    ELSE LET i == CHOOSE x \in DOMAIN g :
                    /\ \A y \in DOMAIN g : g[x].quantity_order >= g[y].quantity_order
                    /\ \A y \in DOMAIN g :
                          g[y].quantity_order = g[x].quantity_order => x <= y
         IN  <<g[i]>> \o SortDescStable(SelectRows(g, DOMAIN g \ {i}))

\* head(n) of the grouping as it stands, with no ordering by quantity
HeadOnly(g, n) == SubSeq(g, 1, IF Len(g) < n THEN Len(g) ELSE n)

\* Series.nlargest(n), keep='first'
nlargest(g, n) ==
    LET s == SortDescStable(g)
    IN  SubSeq(s, 1, IF Len(s) < n THEN Len(s) ELSE n)

\* top_prod of the pie chart
top_prod(f) == nlargest(GroupQuantity(f), TopN)

NoOutput ==
    [view |-> "none", filtered |-> <<>>, revenue |-> 0, orders |-> 0,
     bar |-> FALSE, pie |-> FALSE, top |-> <<>>]

\* what show_dashboard renders for the fetched frame t and the widgets' selection
show_dashboard(t, sel) ==
    IF t = <<>>
    THEN [NoOutput EXCEPT !.view = "no_data"]
    ELSE LET f == filtered_df(t, sel)
         IN  [view |-> "dashboard", filtered |-> f,
              revenue |-> TotalRevenue(f), orders |-> TotalOrders(f),
              bar |-> TRUE, pie |-> TRUE, top |-> top_prod(f)]

-----------------------------------------------------------------------------
(* The dashboard view on its own: a fetched frame, a selection, one render *)

\* calendar days rows and selections range over: 1..MaxDay
MaxDay == 2
\* rows of a frame the filter is applied to
MaxFilterRows == 2
\* distinct product titles of a frame the aggregation is applied to
NProducts == 6
\* the quantity ordered of one row: 1..MaxQty
MaxQty == 2

Regions == {"North", "South"}

\* (region, product) pairs of the rows: the two filters vary independently
Shapes ==
    {[r |-> "North", p |-> 1], [r |-> "South", p |-> 1], [r |-> "North", p |-> 2]}

\* rows at midnight and at the last tick of each day
FilterRowDomain ==
    {[sale_day |-> d * TicksPerDay + k, shipping_region |-> sh.r,
      product_title |-> sh.p, net_sales |-> 10 * sh.p, quantity_order |-> sh.p] :
        d \in 1..MaxDay, k \in {0, TicksPerDay - 1}, sh \in Shapes}

FilterTables == UNION {[1..n -> FilterRowDomain] : n \in 0..MaxFilterRows}

\* what the sidebar widgets can return for frame t: any two days, any subsets
\* of the options offered
Selections(t) ==
    [start : 1..MaxDay, end : 1..MaxDay,
     regions : SUBSET region_list(t), products : SUBSET product_list(t)]

TopRow(p, q) ==
    [sale_day |-> TicksPerDay, shipping_region |-> "North",
     product_title |-> p, net_sales |-> q, quantity_order |-> q]

\* one row per product present, of any quantity, and possibly a second row of
\* the first product
TopTables ==
    {SelectRows([p \in 1..NProducts |-> TopRow(p, IF f[p] = 0 THEN 1 ELSE f[p])],
                {p \in 1..NProducts : f[p] > 0})
        \o (IF x = 0 THEN <<>> ELSE <<TopRow(1, x)>>) :
        f \in [1..NProducts -> 0..MaxQty], x \in 0..MaxQty}

\* the quantities {A:10, B:10, C:9, D:8, E:7, F:6}
ExampleTable ==
    <<TopRow(6, 6), TopRow(1, 10), TopRow(3, 9), TopRow(2, 10), TopRow(5, 7),
      TopRow(4, 8)>>

NoDash == [df |-> <<>>, sel |-> DefaultSelection(<<TopRow(1, 1)>>),
           out |-> NoOutput, done |-> FALSE]

NoIng == [target |-> "monthly_sales", headers |-> <<>>, columns |-> <<>>,
          done |-> FALSE]

\* the script has rendered the dashboard body for the frame and the selection
RenderDashboard ==
    /\ ~dash.done
    /\ dash' = [dash EXCEPT !.out = show_dashboard(dash.df, dash.sel), !.done = TRUE]
    /\ UNCHANGED <<mainVars, ing>>

-----------------------------------------------------------------------------
(* The uploader's column mapping *)

Tables == {"monthly_sales", "amazon_ads"}

\* the keys of map_dict, in the order the dictionary lists them
MapKeys ==
    <<"Products", "Status", "Ad Type", "Sponsored", "Sales(INR)", "ROAS",
      "Conversion Rate", "Impressions", "Clicks", "CTR", "Spend(INR)",
      "CPC(INR)", "Orders", "ACOS", "NTB Orders", "% of Orders",
      "NTB Sales(INR)", "% of Sales", "Viewable Impressions">>

\* the values of map_dict, in the same order
MapValues ==
    <<"products", "status", "ad_type", "sponsored", "sales_inr", "roas",
      "conversion_rate", "impressions", "clicks", "ctr", "spend_inr",
      "cpc_inr", "orders", "acos", "ntb_orders", "percent_of_orders",
      "ntb_sales_inr", "percent_of_sales", "viewable_impressions">>

\* map_dict[h] for a header h that is one of its keys
map_dict(h) == MapValues[CHOOSE k \in DOMAIN MapKeys : MapKeys[k] = h]

\* df_new.rename(columns=map_dict): mapped headers renamed, the others kept
rename(columns) ==
    [i \in DOMAIN columns |->
        IF columns[i] \in Range(MapKeys) THEN map_dict(columns[i]) ELSE columns[i]]

\* valid = [c for c in map_dict.values() if c in df_new.columns]
valid(columns) ==
    SelectRows(MapValues, {k \in DOMAIN MapValues : MapValues[k] \in Range(columns)})

RECURSIVE Project(_, _)
\* df_new[valid]: for each label of valid in turn, every column carrying it
Project(columns, labels) ==
    IF labels = <<>> THEN <<>>
    ELSE SelectRows(columns, {i \in DOMAIN columns : columns[i] = Head(labels)})
            \o Project(columns, Tail(labels))

\* the renamed frame written as it stands, without the projection
RenameOnly(target, headers) ==
    IF target = "amazon_ads" THEN rename(headers) ELSE headers

\* the columns of the frame handed to to_sql for an upload with these headers
NormalizeColumns(target, headers) ==
    IF target = "amazon_ads"
    THEN Project(rename(headers), valid(rename(headers)))
    ELSE headers

\* headers an upload may carry: mapped display names, canonical names that are
\* no key of map_dict, and names the mapping does not know at all
HeaderUniverse ==
    <<"Products", "Sales(INR)", "ROAS", "% of Orders", "products", "roas",
      "Extra", "sale_day">>

\* the script has normalised the uploaded frame's columns for the target table
NormalizeUpload ==
    /\ ~ing.done
    /\ ing' = [ing EXCEPT !.columns = NormalizeColumns(ing.target, ing.headers),
                          !.done = TRUE]
    /\ UNCHANGED <<mainVars, dash>>

-----------------------------------------------------------------------------
(* The store, the uploads and the credentials of the session machine *)

\* st.secrets["admin"]["username"], st.secrets["admin"]["password"]
AdminUser == "admin"
AdminPwd == "secret"

Users == {"admin", "guest"}
Pwds == {"secret", "wrongpass"}

SalesHeaders ==
    <<"sale_day", "shipping_region", "product_title", "net_sales", "quantity_order">>

Iso(d, k) == [kind |-> "iso", day |-> d, tick |-> k]
NotADate == [kind |-> "text", day |-> 0, tick |-> 0]

RowA ==
    [sale_day |-> Iso(1, 0), shipping_region |-> "North", product_title |-> 1,
     net_sales |-> 10, quantity_order |-> 1]
RowB ==
    [sale_day |-> Iso(2, 1), shipping_region |-> "South", product_title |-> 2,
     net_sales |-> 20, quantity_order |-> 2]
RowBad == [RowA EXCEPT !.sale_day = NotADate]

\* an uploaded file: whether read_csv parses it, its header line, its data rows
\* (sales: the rows when it is a sales file; n: how many data rows it has)
FileA == [parses |-> TRUE, headers |-> SalesHeaders, n |-> 1, sales |-> <<RowA>>]
FileB == [parses |-> TRUE, headers |-> SalesHeaders, n |-> 1, sales |-> <<RowB>>]
FileBadDate == [parses |-> TRUE, headers |-> SalesHeaders, n |-> 1, sales |-> <<RowBad>>]
FileMalformed == [parses |-> FALSE, headers |-> <<>>, n |-> 0, sales |-> <<>>]
FileAds ==
    [parses |-> TRUE, headers |-> <<"Products", "Sales(INR)", "ROAS", "Extra">>,
     n |-> 1, sales |-> <<>>]

Files == {FileA, FileB, FileBadDate, FileMalformed, FileAds}

\* whether the store's bulk insert takes a frame with these columns: the sales
\* table takes its own columns, the advertising table any canonical ones
InsertAccepted(target, columns) ==
    /\ columns # <<>>
    /\ Cardinality(Range(columns)) = Len(columns)
    /\ IF target = "monthly_sales"
       THEN Range(columns) = Range(SalesHeaders)
       ELSE Range(columns) \subseteq Range(MapValues)

NoCache == [hit |-> FALSE, value |-> <<>>]

NoStep ==
    [sess |-> "none", op |-> "init", auth |-> FALSE, user |-> "", pwd |-> "",
     view |-> "none", note |-> "", table |-> <<>>, startLen |-> 0]

\* the record of a step of session s: the flag it ran under, what it rendered
Step(s, op, view, note) ==
    [NoStep EXCEPT !.sess = s, !.op = op, !.auth = logged_in[s],
                   !.view = view, !.note = note]

MainIdle ==
    /\ logged_in = [s \in Sessions |-> FALSE]
    /\ monthly_sales = <<>>
    /\ amazon_ads = <<>>
    /\ cache = NoCache
    /\ pc = [s \in Sessions |-> "idle"]
    /\ df = [s \in Sessions |-> <<>>]
    /\ start = [s \in Sessions |-> 0]
    /\ last = NoStep

-----------------------------------------------------------------------------
(* 1. The login gate *)

\* a gate that lets every run through
GateOpen(s) == TRUE

\* if not st.session_state["logged_in"]: login(); st.stop()
Authenticated(s) == logged_in[s]

\* a comparison that accepts either field
EitherMatches(user, pwd) == user = AdminUser \/ pwd = AdminPwd

\* user == secrets username and pwd == secrets password
CredentialsMatch(user, pwd) == user = AdminUser /\ pwd = AdminPwd

\* a script run may begin: none of the session is under way
Ready(s) == pc[s] \in {"idle", "rerun"}

\* a run of a session that is not logged in and pressed no Log in button:
\* whatever it asked for, the script renders the login form and stops
LoginForm(s) ==
    /\ Ready(s)
    /\ ~Authenticated(s)
    /\ pc' = [pc EXCEPT ![s] = "idle"]
    /\ last' = Step(s, "login_form", "login", "")
    /\ UNCHANGED <<logged_in, monthly_sales, amazon_ads, cache, df, start, dash, ing>>

\* the Log in button pressed with a username and a password
LoginSubmit(s, user, pwd) ==
    /\ pc[s] = "idle"
    /\ ~Authenticated(s)
    /\ IF CredentialsMatch(user, pwd)
       THEN /\ logged_in' = [logged_in EXCEPT ![s] = TRUE]
            /\ pc' = [pc EXCEPT ![s] = "rerun"]
            /\ last' = [Step(s, "login_submit", "login", "")
                            EXCEPT !.user = user, !.pwd = pwd]
       ELSE /\ last' = [Step(s, "login_submit", "login", "access_denied")
                            EXCEPT !.user = user, !.pwd = pwd]
            /\ UNCHANGED <<logged_in, pc>>
    /\ UNCHANGED <<monthly_sales, amazon_ads, cache, df, start, dash, ing>>

\* the Log Out button of the sidebar
Logout(s) ==
    /\ pc[s] = "idle"
    /\ Authenticated(s)
    /\ logged_in' = [logged_in EXCEPT ![s] = FALSE]
    /\ pc' = [pc EXCEPT ![s] = "rerun"]
    /\ last' = Step(s, "logout", "sidebar", "")
    /\ UNCHANGED <<monthly_sales, amazon_ads, cache, df, start, dash, ing>>

-----------------------------------------------------------------------------
(* 2-3. get_sales_data and the dashboard page *)

\* what show_dashboard renders for the frame the fetch returned, the widgets
\* at their defaults
Rendered(t) ==
    show_dashboard(t, IF t = <<>> THEN NoDash.sel ELSE DefaultSelection(t))

\* the step that returns frame t from a fetch called when the store held n rows
FetchReturn(s, t, n) ==
    [Step(s, "fetch", Rendered(t).view, "") EXCEPT !.table = t, !.startLen = n]

\* the dashboard page, the memo holding a frame: it is returned without a query
FetchHit(s) ==
    /\ Ready(s)
    /\ Authenticated(s)
    /\ cache.hit
    /\ pc' = [pc EXCEPT ![s] = "idle"]
    /\ last' = FetchReturn(s, cache.value, Len(monthly_sales))
    /\ UNCHANGED <<logged_in, monthly_sales, amazon_ads, cache, df, start, dash, ing>>

\* the dashboard page, the memo empty: connect, SELECT *, to_datetime.  The
\* store is read in this step; a failure of any of the three leaves the
\* function (and show_dashboard, which does not catch it) by an exception
FetchQuery(s, up) ==
    /\ Ready(s)
    /\ Authenticated(s)
    /\ ~cache.hit
    /\ IF up /\ \A i \in DOMAIN monthly_sales : Parseable(monthly_sales[i].sale_day)
       THEN /\ df' = [df EXCEPT ![s] = ParseAll(monthly_sales)]
            /\ start' = [start EXCEPT ![s] = Len(monthly_sales)]
            /\ pc' = [pc EXCEPT ![s] = "fetch_queried"]
            /\ last' = Step(s, "fetch_query", "none", "")
       ELSE /\ pc' = [pc EXCEPT ![s] = "idle"]
            /\ last' = Step(s, "fetch_failed", "exception", "traceback")
            /\ UNCHANGED <<df, start>>
    /\ UNCHANGED <<logged_in, monthly_sales, amazon_ads, cache, dash, ing>>

\* get_sales_data returns: the memo keeps the frame, the page is rendered.
\* When the memo was cleared while the query ran, the platform decides whether
\* the frame still lands in the live memo or in the one that was discarded
FetchStore(s) ==
    /\ pc[s] \in {"fetch_queried", "fetch_orphaned"}
    /\ \/ cache' = [hit |-> TRUE, value |-> df[s]]
       \/ pc[s] = "fetch_orphaned" /\ cache' = cache
    /\ pc' = [pc EXCEPT ![s] = "idle"]
    /\ df' = [df EXCEPT ![s] = <<>>]
    /\ start' = [start EXCEPT ![s] = 0]
    /\ last' = FetchReturn(s, df[s], start[s])
    /\ UNCHANGED <<logged_in, monthly_sales, amazon_ads, dash, ing>>

-----------------------------------------------------------------------------
(* 4. The admin page *)

\* the page with no button pressed
AdminView(s) ==
    /\ Ready(s)
    /\ Authenticated(s)
    /\ pc' = [pc EXCEPT ![s] = "idle"]
    /\ last' = Step(s, "admin", "admin", "")
    /\ UNCHANGED <<logged_in, monthly_sales, amazon_ads, cache, df, start, dash, ing>>

\* a handler that also drops the memo when the upload failed
OnUploadErrorClearing(s, step) ==
    /\ last' = Step(s, "upload_failed", "admin", step)
    /\ cache' = NoCache
    /\ UNCHANGED <<logged_in, monthly_sales, amazon_ads, pc, df, start>>

\* except Exception as e: st.error("Upload Failed: ...")
OnUploadError(s, step) ==
    /\ last' = Step(s, "upload_failed", "admin", step)
    /\ UNCHANGED <<logged_in, monthly_sales, amazon_ads, cache, pc, df, start>>

\* to_sql(..., if_exists="append"): the rows of the file follow the rows the
\* target table holds (an advertising row is kept as the set of its columns)
InsertRows(target, file, columns) ==
    IF target = "monthly_sales"
    THEN /\ monthly_sales' = monthly_sales \o file.sales
         /\ UNCHANGED amazon_ads
    ELSE /\ amazon_ads' = amazon_ads \o [i \in 1..file.n |-> Range(columns)]
         /\ UNCHANGED monthly_sales

\* Confirm Upload pressed: get_engine, read_csv, the mapping, to_sql
UploadConfirm(s, file, target, engineOk, dbUp) ==
    /\ pc[s] = "idle"
    /\ Authenticated(s)
    /\ Len(monthly_sales) + file.n <= MaxRows
    /\ Len(amazon_ads) + file.n <= MaxAds \/ target = "monthly_sales"
    /\ IF ~engineOk THEN OnUploadError(s, "failed_engine")
       ELSE IF ~file.parses THEN OnUploadError(s, "failed_csv")
       ELSE IF ~(dbUp /\ InsertAccepted(target, NormalizeColumns(target, file.headers)))
       THEN OnUploadError(s, "failed_insert")
       ELSE /\ InsertRows(target, file, NormalizeColumns(target, file.headers))
            /\ pc' = [pc EXCEPT ![s] = "upload_written"]
            /\ last' = Step(s, "upload_append", "admin", "")
            /\ UNCHANGED <<logged_in, cache, df, start>>
    /\ UNCHANGED <<dash, ing>>

\* st.success(...) and st.cache_data.clear(), after to_sql returned
UploadFinish(s) ==
    /\ pc[s] = "upload_written"
    /\ cache' = NoCache
    /\ pc' = [t \in Sessions |->
                IF t = s THEN "idle"
                ELSE IF pc[t] = "fetch_queried" THEN "fetch_orphaned" ELSE pc[t]]
    /\ last' = Step(s, "upload_done", "admin", "upload_ok")
    /\ UNCHANGED <<logged_in, monthly_sales, amazon_ads, df, start, dash, ing>>

\* Load Data pressed in the inspector
InspectorLoad(s, up) ==
    /\ pc[s] = "idle"
    /\ Authenticated(s)
    /\ pc' = pc
    /\ last' = Step(s, "inspect", "admin", IF up THEN "inspect_ok" ELSE "inspect_failed")
    /\ UNCHANGED <<logged_in, monthly_sales, amazon_ads, cache, df, start, dash, ing>>

-----------------------------------------------------------------------------
(* The session machine *)

Init ==
    /\ MainIdle
    /\ dash = NoDash
    /\ ing = NoIng

Next ==
    \E s \in Sessions :
        \/ LoginForm(s)
        \/ \E user \in Users, pwd \in Pwds : LoginSubmit(s, user, pwd)
        \/ Logout(s)
        \/ FetchHit(s)
        \/ \E up \in BOOLEAN : FetchQuery(s, up)
        \/ FetchStore(s)
        \/ AdminView(s)
        \/ \E file \in Files, target \in Tables, engineOk \in BOOLEAN, dbUp \in BOOLEAN :
                UploadConfirm(s, file, target, engineOk, dbUp)
        \/ UploadFinish(s)
        \/ \E up \in BOOLEAN : InspectorLoad(s, up)

Spec == Init /\ [][Next]_vars

(* The dashboard view alone, on frames the filter is exercised by *)
InitFilter ==
    /\ MainIdle
    /\ ing = NoIng
    /\ \E t \in FilterTables \ {<<>>} : \E sel \in Selections(t) :
          dash = [df |-> t, sel |-> sel, out |-> NoOutput, done |-> FALSE]

SpecFilter == InitFilter /\ [][RenderDashboard]_vars

(* The dashboard view alone, on frames of many products *)
InitTop ==
    /\ MainIdle
    /\ ing = NoIng
    /\ \E t \in (TopTables \cup {ExampleTable}) \ {<<>>} :
          dash = [df |-> t, sel |-> DefaultSelection(t), out |-> NoOutput,
                  done |-> FALSE]

SpecTop == InitTop /\ [][RenderDashboard]_vars

(* The column mapping alone *)
InitIngest ==
    /\ MainIdle
    /\ dash = NoDash
    /\ \E keep \in SUBSET DOMAIN HeaderUniverse, target \in Tables :
          ing = [target |-> target, headers |-> SelectRows(HeaderUniverse, keep),
                 columns |-> <<>>, done |-> FALSE]

SpecIngest == InitIngest /\ [][NormalizeUpload]_vars

-----------------------------------------------------------------------------
(* Properties of the session machine *)

\* the steps that lie behind the gate: the pages, the fetch, the upload, the
\* inspector, the sidebar's Log Out
AppOps ==
    {"fetch", "fetch_query", "fetch_failed", "admin", "upload_failed",
     "upload_append", "upload_done", "inspect", "logout"}

\* C1: no dashboard render, sales fetch, ingestion or table inspection runs
\* under a false logged_in flag: a run under a false flag renders the login
\* form only and stops, no session is inside a fetch or an upload while its
\* flag is false, and Log Out leaves the flag false.
C1_GateBlocksUnauthenticated ==
    /\ last.op \in AppOps => last.auth
    /\ (last.op # "init" /\ ~last.auth) =>
          /\ last.op \in {"login_form", "login_submit"}
          /\ last.view = "login"
          /\ last.table = <<>>
          /\ pc[last.sess] \in {"idle", "rerun"}
    /\ \A s \in Sessions : pc[s] \notin {"idle", "rerun"} => logged_in[s]
    /\ last.op = "logout" => ~logged_in[last.sess]

\* every session is logged out again after data was uploaded and fetched, and
\* the run that followed rendered the login form
C1_Witness ==
    /\ last.op = "login_form"
    /\ \A s \in Sessions : ~logged_in[s]
    /\ cache.hit
    /\ monthly_sales # <<>>

\* C2: a login submission whose username or password differs from the
\* configured pair changes nothing but the rendered access-denied error, and a
\* session's flag turns true only in a submission of exactly the configured
\* username and password by that session.
C2_OnlyExactCredentialsLogIn ==
    /\ [][(last'.op = "login_submit"
              /\ ~(last'.user = AdminUser /\ last'.pwd = AdminPwd)) =>
            /\ UNCHANGED <<logged_in, monthly_sales, amazon_ads, cache, pc, df, start>>
            /\ last'.note = "access_denied"]_vars
    /\ [][\A s \in Sessions : (~logged_in[s] /\ logged_in'[s]) =>
            /\ last'.op = "login_submit"
            /\ last'.sess = s
            /\ last'.user = AdminUser
            /\ last'.pwd = AdminPwd]_vars

\* the right username with a wrong password was refused while the other
\* session was logged in and the store and the memo held data
C2_Witness ==
    /\ last.op = "login_submit"
    /\ last.note = "access_denied"
    /\ last.user = AdminUser
    /\ last.pwd # AdminPwd
    /\ ~logged_in[last.sess]
    /\ cache.hit
    /\ monthly_sales # <<>>

\* C3: a fetch called after an append completed returns every row the store
\* held when it was called.
C3_NoStaleRead ==
    last.op = "fetch" =>
        /\ Len(last.table) >= last.startLen
        /\ \A i \in 1..last.startLen : last.table[i] = ParseRow(monthly_sales[i])

\* C4: a failed fetch is caught: the run ends in the empty-table state with a
\* visible error and the session goes on.
C4_FailedFetchDegrades ==
    last.op = "fetch_failed" =>
        /\ last.view = "no_data"
        /\ last.note # ""
        /\ logged_in[last.sess]
        /\ pc[last.sess] = "idle"

\* C5: a failed upload adds no row to either table, leaves the memo and the
\* session flags alone and renders an error; the memo is cleared, and the
\* success message rendered, only by the step that follows a completed
\* insert, and that step is reached only by an insert that added rows.
C5_FailedUploadChangesNothing ==
    [][/\ last'.op = "upload_failed" =>
            /\ UNCHANGED <<monthly_sales, amazon_ads, cache, logged_in>>
            /\ logged_in'[last'.sess]
            /\ last'.view = "admin"
            /\ last'.note \in {"failed_engine", "failed_csv", "failed_insert"}
       /\ (cache.hit /\ ~cache'.hit) =>
            /\ last'.op = "upload_done"
            /\ pc[last'.sess] = "upload_written"
       /\ last'.note = "upload_ok" => pc[last'.sess] = "upload_written"
       /\ \A s \in Sessions :
            (pc'[s] = "upload_written" /\ pc[s] # "upload_written") =>
                \/ Len(monthly_sales') > Len(monthly_sales)
                \/ Len(amazon_ads') > Len(amazon_ads)]_vars

\* the bulk insert failed while the store and the memo held data
C5_Witness ==
    /\ last.op = "upload_failed"
    /\ last.note = "failed_insert"
    /\ cache.hit
    /\ monthly_sales # <<>>

\* C6: fetching after an upload and filtering to criteria that cover the rows
\* reproduces every row appended before the fetch was called exactly as often
\* as it was appended.
C6_RoundTrip ==
    last.op = "fetch" =>
        LET t == last.table
            f == IF t = <<>> THEN <<>> ELSE filtered_df(t, DefaultSelection(t))
            before == ParseAll(SubSeq(monthly_sales, 1, last.startLen))
        IN  \A r \in Range(before) :
                /\ Count(r, f) >= Count(r, before)
                /\ Count(r, f) <= Count(r, ParseAll(monthly_sales))

\* The store side of the round trip: a table changes only by a completed
\* insert, which keeps every row it held and adds the rows of one file, each
\* once.
AppendOnlyStore ==
    [][/\ monthly_sales' # monthly_sales =>
            /\ last'.op = "upload_append"
            /\ \E file \in Files :
                  /\ file.sales # <<>>
                  /\ monthly_sales' = monthly_sales \o file.sales
       /\ amazon_ads' # amazon_ads =>
            /\ last'.op = "upload_append"
            /\ Len(amazon_ads') > Len(amazon_ads)
            /\ SubSeq(amazon_ads', 1, Len(amazon_ads)) = amazon_ads]_vars

-----------------------------------------------------------------------------
(* Properties of the dashboard view *)

\* the row's calendar day lies in [start, end] and its region and product are
\* among the selected ones
Selected(r, sel) ==
    /\ sel.start <= DateOf(r.sale_day)
    /\ DateOf(r.sale_day) <= sel.end
    /\ r.shipping_region \in sel.regions
    /\ r.product_title \in sel.products

\* s is t with some rows left out, the order kept
IsSubsequence(s, t) ==
    \E keep \in SUBSET DOMAIN t : s = SelectRows(t, keep)

\* C7: the filtered frame holds exactly the rows whose sale date lies in
\* [start, end], both bounds included, and whose region and product are
\* selected, each as often as the frame holds it and in the frame's order; a
\* selection with start > end yields no row, and the full span with every
\* observed region and product yields the unfiltered frame.
C7_FilterExact ==
    (dash.done /\ dash.df # <<>>) =>
        /\ \A r \in Range(dash.df) :
              Count(r, dash.out.filtered) =
                  IF Selected(r, dash.sel) THEN Count(r, dash.df) ELSE 0
        /\ IsSubsequence(dash.out.filtered, dash.df)
        /\ dash.sel.start > dash.sel.end => dash.out.filtered = <<>>
        /\ dash.sel = DefaultSelection(dash.df) => dash.out.filtered = dash.df

\* a one-day range kept a row stamped at the last tick of that day and
\* dropped another row
C7_Witness ==
    /\ dash.done
    /\ dash.sel.start = dash.sel.end
    /\ \E i \in DOMAIN dash.out.filtered :
          dash.out.filtered[i].sale_day = (dash.sel.end + 1) * TicksPerDay - 1
    /\ Len(dash.out.filtered) < Len(dash.df)

\* C8: when the selection excludes every row of a non-empty frame, both
\* metrics are zero and neither chart is rendered.
C8_EmptySelectionSkipsCharts ==
    (dash.done /\ dash.df # <<>> /\ dash.out.filtered = <<>>) =>
        /\ dash.out.revenue = 0
        /\ dash.out.orders = 0
        /\ ~dash.out.bar
        /\ ~dash.out.pie

\* the quantity ordered of product p, summed over frame f
QuantityOf(p, f) ==
    SumOver([i \in DOMAIN f |-> f[i].quantity_order],
            {i \in DOMAIN f : f[i].product_title = p})

\* C10: the top-products aggregation returns min(5, distinct products)
\* entries, one per product with its summed quantity, in descending order of
\* the sum, equal sums in the grouping's (sorted) order of the products; no
\* product left out comes before a returned one in that order; and on
\* {A:10, B:10, C:9, D:8, E:7, F:6} it returns A, B, C, D, E, totalling 44.
C10_TopProducts ==
    dash.done =>
        LET f == dash.out.filtered
            top == dash.out.top
            n == Cardinality(product_list(f))
            Before(p, q) ==
                \/ QuantityOf(p, f) > QuantityOf(q, f)
                \/ QuantityOf(p, f) = QuantityOf(q, f) /\ p < q
        IN  /\ Len(top) = IF n < TopN THEN n ELSE TopN
            /\ \A i \in DOMAIN top :
                  /\ top[i].product_title \in product_list(f)
                  /\ top[i].quantity_order = QuantityOf(top[i].product_title, f)
            /\ \A i, j \in DOMAIN top :
                  i < j => Before(top[i].product_title, top[j].product_title)
            /\ \A p \in product_list(f) :
                  (\A i \in DOMAIN top : top[i].product_title # p) =>
                      \A i \in DOMAIN top : Before(top[i].product_title, p)
            /\ dash.df = ExampleTable =>
                  /\ [i \in DOMAIN top |-> top[i].product_title] = <<1, 2, 3, 4, 5>>
                  /\ SumOver([i \in DOMAIN top |-> top[i].quantity_order],
                             DOMAIN top) = 44

\* the aggregation has run on the quantities {A:10, B:10, C:9, D:8, E:7, F:6}
C10_Witness ==
    /\ dash.done
    /\ dash.df = ExampleTable
    /\ Len(dash.out.top) = TopN

-----------------------------------------------------------------------------
(* Properties of the column mapping *)

\* C9, as the specification states it: for amazon_ads the columns written are
\* exactly the canonical names of the input headers that are keys of the
\* mapping, every other input column is dropped; for monthly_sales the columns
\* are written unchanged.
C9_OnlyMappedHeadersKept ==
    ing.done =>
        IF ing.target = "amazon_ads"
        THEN Range(ing.columns) =
                {map_dict(h) : h \in Range(ing.headers) \cap Range(MapKeys)}
        ELSE ing.columns = ing.headers

\* C9, amended: for amazon_ads the columns written are exactly the canonical
\* names that an input header either is mapped to or already carries, in the
\* order of the mapping, each once per input column that yields it; every
\* other input column is dropped and no canonical column absent from the
\* upload is created; for monthly_sales the columns are written unchanged.
C9_CanonicalColumnsKept ==
    ing.done =>
        IF ing.target = "amazon_ads"
        THEN /\ Range(ing.columns) =
                  {c \in Range(MapValues) :
                      \E h \in Range(ing.headers) :
                          \/ h = c
                          \/ h \in Range(MapKeys) /\ map_dict(h) = c}
             /\ \A c \in Range(ing.columns) :
                  Count(c, ing.columns) =
                      Cardinality({i \in DOMAIN ing.headers :
                          \/ ing.headers[i] = c
                          \/ /\ ing.headers[i] \in Range(MapKeys)
                             /\ map_dict(ing.headers[i]) = c})
             /\ \A i, j \in DOMAIN ing.columns :
                  i < j => \E a, b \in DOMAIN MapValues :
                              /\ MapValues[a] = ing.columns[i]
                              /\ MapValues[b] = ing.columns[j]
                              /\ a <= b
        ELSE ing.columns = ing.headers

\* an advertising upload with a mapped header, a header that already carries a
\* canonical name and a header the mapping does not know
C9_Witness ==
    /\ ing.done
    /\ ing.target = "amazon_ads"
    /\ {"ROAS", "products", "Extra"} \subseteq Range(ing.headers)
    /\ "Products" \notin Range(ing.headers)
    /\ Range(ing.columns) = {"roas", "products"}

====
